---- MODULE Spec2Model ----
(***************************************************************************)
(* A model of the AudioCaption experiment runners:                         *)
(*   src/captioning/ignite_runners/run_structure.py  (Runner)              *)
(*   src/runners/base_runner.py                      (BaseRunner)          *)
(*                                                                         *)
(* Three state machines share the module:                                  *)
(*   SpecSplit  - _get_dataloaders: the train/validation split             *)
(*   SpecDecode - _convert_idx2sentence and the caption built from it      *)
(*   Spec       - Runner.train: setup, the training engine, the            *)
(*                evaluation engine and their event handlers               *)
(***************************************************************************)
EXTENDS Integers, Sequences, FiniteSets, TLC

VARIABLES
    \* ---- _get_dataloaders ----
    split_pc,          \* "config" | "built" | "idle"
    data_config,       \* the part of config the split reads
    train_audio_idxs,  \* run_structure.py:58 / the train rows' keys (base_runner.py:46)
    val_audio_idxs,    \* run_structure.py:57
    train_df,          \* base_runner.py:46, the rows of caption_df kept for training
    val_df,            \* base_runner.py:47
    train_key2refs,    \* key -> reference captions
    val_key2refs,
    \* ---- _convert_idx2sentence ----
    decode_pc,         \* "input" | "converted" | "written" | "idle"
    word_ids,          \* the id sequence given to _convert_idx2sentence
    zh,                \* the logographic flag
    candidate,         \* what _convert_idx2sentence returned
    pred_row,          \* the row evaluate() adds to pred_df from it
    \* ---- Runner.train ----
    pc,                \* the statement of train() the process is at
    conf,              \* the configuration train() was called with
    local_rank,        \* self.local_rank, -1 while it is not assigned
    bound,             \* the main-process-only local names that are bound
    refs,              \* the main-process-only local names evaluated so far
    io,                \* the kinds of I/O the process has performed
    writes,            \* file of the output directory -> times it was written
    saved,             \* best.pth and last.pth -> the dump last saved to it
    handlers,          \* event -> its handlers, in registration order
    trainer,           \* trainer.state
    evaluator,         \* evaluator.state
    pending,           \* handlers of the trainer event being fired, still to call
    eval_pending,      \* the same for the evaluator
    ss_ratio,          \* conf["ss_args"]["ss_ratio"]
    ss_updates,        \* calls of update_ss_ratio so far
    key2pred,          \* run_structure.py:433
    scored,            \* the key2pred the last eval_val handed to the scorer
    scheduler,         \* the calls of scheduler.step
    best_value,        \* the state of crtrn_imprvd
    score_history,     \* the score of every evaluation epoch, in order
    best_history,      \* for every save_model call, whether it wrote best.pth
    net,               \* the model, the optimizer, the SWA model and the sampler
    \* ---- the score report of evaluate() ----
    report_pc,         \* the statement of evaluate() the process is at
    report_conf,       \* zh, caption_embedding_path and the scorers that fail
    report_file,       \* f: "unopened" | "open" | "closed"
    report_lines,      \* the labels of the lines written to f, in order
    computed,          \* the compute_score calls that returned, in order
    \* ---- the construction of the dataloaders ----
    load_pc,           \* the statement of _get_dataloaders the process is at
    load_conf,         \* config["data"] and the files it names
    policy,            \* the branches of run_structure.py:44 entered, in order
    built,             \* the datasets and dataloaders constructed so far
    load_error,        \* the exception raised, "" if none
    val_audio_ids      \* run_structure.py:77

splitVars == <<split_pc, data_config, train_audio_idxs, val_audio_idxs,
               train_df, val_df, train_key2refs, val_key2refs>>
decodeVars == <<decode_pc, word_ids, zh, candidate, pred_row>>
trainVars == <<pc, conf, local_rank, bound, refs, io, writes, saved, handlers, trainer,
               evaluator, pending, eval_pending, ss_ratio, ss_updates, key2pred,
               scored, scheduler, best_value, score_history, best_history, net>>
scoreVars == <<report_pc, report_conf, report_file, report_lines, computed>>
loadVars == <<load_pc, load_conf, policy, built, load_error, val_audio_ids>>
vars == <<splitVars, decodeVars, trainVars, scoreVars, loadVars>>

(***************************************************************************)
(* Bounds of the model.                                                    *)
(***************************************************************************)
MaxRecords == 10      \* caption_info holds 0..MaxRecords audio records
MaxFileKeys == 3      \* audio ids a pre-split caption file may hold
CapsPerRecord == 2    \* captions of one audio record
MaxLen == 5           \* longest id sequence given to _convert_idx2sentence
MaxEpochs == 2        \* conf["epochs"] is 1..MaxEpochs
MaxIters == 2         \* len(train_dataloader) is 1..MaxIters
NumValKeys == 3       \* audio keys of the validation set
BatchSize == 2        \* keys of one validation batch
MaxScore == 1         \* the scorer returns a score in 0..MaxScore
WorldSize == 2        \* processes of a distributed run
MaxAudios == 2        \* audio ids of the feature tables, 1..MaxAudios

(***************************************************************************)
(* Python floats.  `train_percent / 100.` is a float division, so the      *)
(* split sizes are computed in IEEE-754 binary64.  A non-negative float    *)
(* is [m, e]: the natural number m < 2^53 times 2^e.  m is written in      *)
(* limbs of 15 bits, least significant first, no leading zero limb         *)
(* (TLC's integers have 32 bits).  Every operation rounds to nearest,      *)
(* ties to even, as the hardware does.                                     *)
(***************************************************************************)
Radix == 2 ^ 15

RECURSIVE NatLimbs(_)
NatLimbs(n) == IF n = 0 THEN <<>> ELSE <<n % Radix>> \o NatLimbs(n \div Radix)

RECURSIVE LimbsVal(_)
LimbsVal(b) == IF b = <<>> THEN 0 ELSE Head(b) + Radix * LimbsVal(Tail(b))

\* b without its most significant zero limbs
Normal(b) ==
    LET nz == {i \in 1..Len(b) : b[i] # 0}
    IN  IF nz = {} THEN <<>>
        ELSE SubSeq(b, 1, CHOOSE i \in nz : \A j \in nz : j <= i)

\* b * k + c for a small k
RECURSIVE LimbsMulSmall(_, _, _)
LimbsMulSmall(b, k, c) ==
    IF b = <<>> THEN NatLimbs(c)
    ELSE LET t == Head(b) * k + c
         IN  <<t % Radix>> \o LimbsMulSmall(Tail(b), k, t \div Radix)

\* long division of b by a small d, from the most significant limb:
\* [q |-> quotient, r |-> remainder]
RECURSIVE LimbsDivSmall(_, _)
LimbsDivSmall(b, d) ==
    IF b = <<>> THEN [q |-> <<>>, r |-> 0]
    ELSE LET hi == LimbsDivSmall(Tail(b), d)
             t == hi.r * Radix + Head(b)
         IN  [q |-> <<t \div d>> \o hi.q, r |-> t % d]

\* a - b - w for a >= b + w
RECURSIVE LimbsSub(_, _, _)
LimbsSub(a, b, w) ==
    IF a = <<>> THEN <<>>
    ELSE LET y == IF b = <<>> THEN 0 ELSE Head(b)
             t == Head(a) - y - w
         IN  <<t % Radix>> \o LimbsSub(Tail(a), IF b = <<>> THEN <<>> ELSE Tail(b),
                                       IF t < 0 THEN 1 ELSE 0)

RECURSIVE LimbsInc(_)
LimbsInc(b) ==
    IF b = <<>> THEN <<1>>
    ELSE IF Head(b) + 1 < Radix THEN <<Head(b) + 1>> \o Tail(b)
    ELSE <<0>> \o LimbsInc(Tail(b))

\* bit j (1 = least significant) of b
Bit(b, j) ==
    LET i == (j - 1) \div 15 + 1
    IN  IF i > Len(b) THEN 0 ELSE (b[i] \div (2 ^ ((j - 1) % 15))) % 2

\* the number of significant bits of a normal b
BitLen(b) ==
    IF b = <<>> THEN 0
    ELSE 15 * (Len(b) - 1) + CHOOSE k \in 1..15 : 2 ^ (k - 1) <= b[Len(b)] /\ b[Len(b)] < 2 ^ k

\* b * 2^s
ShiftLeftBits(b, s) ==
    [i \in 1..(s \div 15) |-> 0] \o LimbsMulSmall(b, 2 ^ (s % 15), 0)

\* floor(b / 2^s)
ShiftRightBits(b, s) ==
    LET ls == s \div 15
        bs == s % 15
        at(i) == IF i > Len(b) THEN 0 ELSE b[i]
    IN  IF ls >= Len(b) THEN <<>>
        ELSE Normal([i \in 1..(Len(b) - ls) |->
                (at(i + ls) \div (2 ^ bs)) + (at(i + ls + 1) % (2 ^ bs)) * (2 ^ (15 - bs))])

FZero == [m |-> <<>>, e |-> 0]

\* The float nearest to b * 2^e (plus a little, when sticky): 53 significant
\* bits, round to nearest, ties to even.
FRound(limbs, e, sticky) ==
    LET b == Normal(limbs)
        L == BitLen(b)
    IN  IF L <= 53 THEN [m |-> b, e |-> IF L = 0 THEN 0 ELSE e]
        ELSE LET drop == L - 53
                 kept == ShiftRightBits(b, drop)
                 rest == sticky \/ \E j \in 1..(drop - 1) : Bit(b, j) = 1
                 up == Bit(b, drop) = 1 /\ (rest \/ Bit(kept, 1) = 1)
                 m == IF up THEN LimbsInc(kept) ELSE kept
             IN  IF BitLen(m) = 54
                 THEN [m |-> ShiftRightBits(m, 1), e |-> e + drop + 1]
                 ELSE [m |-> m, e |-> e + drop]

\* float(a) / float(d) for small naturals a and d > 0
FDivInt(a, d) ==
    LET qr == LimbsDivSmall(ShiftLeftBits(NatLimbs(a), 64), d)
    IN  FRound(qr.q, -64, qr.r # 0)

\* 1 - x for a float 0 <= x <= 1
FOneMinus(x) ==
    IF x.m = <<>> THEN [m |-> <<1>>, e |-> 0]
    ELSE FRound(LimbsSub(ShiftLeftBits(<<1>>, -x.e), x.m, 0), x.e, FALSE)

\* n * x for a small natural n
FMulInt(n, x) == FRound(LimbsMulSmall(x.m, n, 0), x.e, FALSE)

\* int(x): truncation toward zero of a non-negative float
FTrunc(x) ==
    IF x.e >= 0 THEN LimbsVal(x.m) * (2 ^ x.e)
    ELSE LimbsVal(ShiftRightBits(x.m, -x.e))

(***************************************************************************)
(* _get_dataloaders: the train/validation split.                           *)
(*                                                                         *)
(* data_config holds what the split reads:                                 *)
(*   runner         "Runner" (run_structure.py) | "BaseRunner"             *)
(*   presplit       "train" in data_config (Runner);                       *)
(*                  "caption_file" not in config (BaseRunner)              *)
(*   caption_file   the caption metadata read under the percentage policy  *)
(*   train_percent  0..100                                                 *)
(*   train_file, val_file   the pre-split caption files as read            *)
(*                                                                         *)
(* Runner's caption_info is a list of audio records, indexed from 0, each  *)
(* with its own audio_id; BaseRunner's caption_df has one row per caption, *)
(* CapsPerRecord rows for every key.                                       *)
(***************************************************************************)
FileKeys == 1..MaxFileKeys

Captions(audio_id) == [j \in 1..CapsPerRecord |-> <<audio_id, j>>]

\* json.load(open(caption_file))["audios"] with n records
CaptionInfo(n) ==
    [idx \in 0..(n - 1) |-> [audio_id |-> idx, captions |-> Captions(idx)]]

\* pd.read_json(caption_file) with u keys
CaptionDf(u) ==
    [row \in 0..(u * CapsPerRecord - 1) |->
        [key |-> row \div CapsPerRecord,
         caption |-> <<row \div CapsPerRecord, (row % CapsPerRecord) + 1>>]]

\* a caption file holding the audio ids in keys
FileCaptionInfo(keys) == [k \in keys |-> [audio_id |-> k, captions |-> Captions(k)]]

\* caption_df["key"].unique()
UniqueKeys(df) == {df[row].key : row \in DOMAIN df}

\* the subsets of S with k elements: what np.random.choice(S, k, replace=False)
\* may draw (as a set: the order of the draw is not kept)
KSubsets(S, k) == {T \in SUBSET S : Cardinality(T) = k}

\* run_structure.py:56
ValSize(n, train_percent) == FTrunc(FMulInt(n, FOneMinus(FDivInt(train_percent, 100))))

\* base_runner.py:43
TrainSize(u, train_percent) == FTrunc(FMulInt(u, FDivInt(train_percent, 100)))

TrainAudioIdxsDropLast(n, val_idxs) == {idx \in 0..(n - 2) : idx \notin val_idxs}

\* run_structure.py:58
TrainAudioIdxs(n, val_idxs) == {idx \in 0..(n - 1) : idx \notin val_idxs}

Key2RefsOfAll(caption_info, idxs) ==
    [audio_id \in {caption_info[idx].audio_id : idx \in DOMAIN caption_info} |->
        LET idx == CHOOSE i \in DOMAIN caption_info : caption_info[i].audio_id = audio_id
        IN  caption_info[idx].captions]

\* run_structure.py:88-99 and 145-160: audio_id -> the captions of the record
Key2Refs(caption_info, idxs) ==
    [audio_id \in {caption_info[idx].audio_id : idx \in idxs} |->
        LET idx == CHOOSE i \in idxs : caption_info[i].audio_id = audio_id
        IN  caption_info[idx].captions]

\* base_runner.py:91-95: df.groupby("key")[...].apply(list).to_dict(), the
\* captions of a key in row order
GroupByKey(df, rows) ==
    LET in_order == [i \in 1..Cardinality(DOMAIN df) |-> i - 1]
    IN  [key \in {df[row].key : row \in rows} |->
            LET of_key == SelectSeq(in_order, LAMBDA r : r \in rows /\ df[r].key = key)
            IN  [j \in 1..Len(of_key) |-> df[of_key[j]].caption]]

SplitConfigs ==
    {[runner |-> "Runner", presplit |-> FALSE, caption_file |-> CaptionInfo(n),
      train_percent |-> percent, train_file |-> <<>>, val_file |-> <<>>] :
        n \in 0..MaxRecords, percent \in 0..100}
    \cup
    {[runner |-> "BaseRunner", presplit |-> FALSE, caption_file |-> CaptionDf(u),
      train_percent |-> percent, train_file |-> <<>>, val_file |-> <<>>] :
        u \in 0..MaxRecords, percent \in 0..100}
    \cup
    {[runner |-> r, presplit |-> TRUE, caption_file |-> <<>>, train_percent |-> 0,
      train_file |-> FileCaptionInfo(tf), val_file |-> FileCaptionInfo(vf)] :
        r \in {"Runner", "BaseRunner"}, tf \in SUBSET FileKeys, vf \in SUBSET FileKeys}

DecodeIdle ==
    /\ decode_pc = "idle" /\ word_ids = <<>> /\ zh = FALSE
    /\ candidate = <<>> /\ pred_row = <<>>

TrainIdle ==
    /\ pc = "idle" /\ conf = <<>> /\ local_rank = -1
    /\ bound = {} /\ refs = {} /\ io = {} /\ writes = <<>> /\ saved = <<>>
    /\ handlers = <<>>
    /\ trainer = <<>> /\ evaluator = <<>> /\ pending = <<>> /\ eval_pending = <<>>
    /\ ss_ratio = <<>> /\ ss_updates = 0 /\ key2pred = <<>> /\ scored = <<>>
    /\ scheduler = <<>> /\ best_value = <<>>
    /\ score_history = <<>> /\ best_history = <<>> /\ net = <<>>

ScoreIdle ==
    /\ report_pc = "idle" /\ report_conf = <<>> /\ report_file = "unopened"
    /\ report_lines = <<>> /\ computed = <<>>

LoadIdle ==
    /\ load_pc = "idle" /\ load_conf = <<>> /\ policy = <<>>
    /\ built = {} /\ load_error = "" /\ val_audio_ids = {}

SplitInit ==
    /\ split_pc = "config"
    /\ data_config \in SplitConfigs
    /\ train_audio_idxs = {} /\ val_audio_idxs = {}
    /\ train_df = {} /\ val_df = {}
    /\ train_key2refs = <<>> /\ val_key2refs = <<>>
    /\ DecodeIdle
    /\ TrainIdle
    /\ ScoreIdle
    /\ LoadIdle

\* run_structure.py:44-99, the percentage policy
RunnerPercentSplit ==
    /\ split_pc = "config"
    /\ data_config.runner = "Runner" /\ ~data_config.presplit
    /\ LET caption_info == data_config.caption_file
           n == Cardinality(DOMAIN caption_info)
       IN  \E val_size \in {ValSize(n, data_config.train_percent)} :
           \E chosen \in KSubsets(0..(n - 1), val_size) :
             /\ val_audio_idxs' = chosen
             /\ train_audio_idxs' = TrainAudioIdxs(n, chosen)
             /\ train_key2refs' = Key2Refs(caption_info, TrainAudioIdxs(n, chosen))
             /\ val_key2refs' = Key2Refs(caption_info, chosen)
    /\ split_pc' = "built"
    /\ UNCHANGED <<data_config, train_df, val_df, decodeVars, trainVars, scoreVars, loadVars>>

\* run_structure.py:100-160, the pre-split files
RunnerPresplit ==
    /\ split_pc = "config"
    /\ data_config.runner = "Runner" /\ data_config.presplit
    /\ LET train_info == data_config.train_file
           val_info == data_config.val_file
       IN  /\ train_key2refs' = Key2Refs(train_info, DOMAIN train_info)
           /\ val_key2refs' = Key2Refs(val_info, DOMAIN val_info)
    /\ split_pc' = "built"
    /\ UNCHANGED <<data_config, train_audio_idxs, val_audio_idxs, train_df, val_df,
                   decodeVars, trainVars, scoreVars, loadVars>>

\* base_runner.py:39-47 and 90-95, the percentage policy
BasePercentSplit ==
    /\ split_pc = "config"
    /\ data_config.runner = "BaseRunner" /\ ~data_config.presplit
    /\ LET caption_df == data_config.caption_file
           unique == UniqueKeys(caption_df)
       IN  \E size \in {TrainSize(Cardinality(unique), data_config.train_percent)} :
           \E train_keys \in KSubsets(unique, size) :
             LET train_rows == {row \in DOMAIN caption_df : caption_df[row].key \in train_keys}
                 val_rows == {row \in DOMAIN caption_df : row \notin train_rows}
             IN  /\ train_df' = train_rows
                 /\ val_df' = val_rows
                 /\ train_key2refs' = GroupByKey(caption_df, train_rows)
                 /\ val_key2refs' = GroupByKey(caption_df, val_rows)
    /\ split_pc' = "built"
    /\ UNCHANGED <<data_config, train_audio_idxs, val_audio_idxs, decodeVars, trainVars, scoreVars, loadVars>>

\* base_runner.py:48-51 and 90-95, the pre-split files
BasePresplit ==
    /\ split_pc = "config"
    /\ data_config.runner = "BaseRunner" /\ data_config.presplit
    /\ LET train_file_df == data_config.train_file
           val_file_df == data_config.val_file
       IN  /\ train_df' = DOMAIN train_file_df
           /\ val_df' = DOMAIN val_file_df
           /\ train_key2refs' = Key2Refs(train_file_df, DOMAIN train_file_df)
           /\ val_key2refs' = Key2Refs(val_file_df, DOMAIN val_file_df)
    /\ split_pc' = "built"
    /\ UNCHANGED <<data_config, train_audio_idxs, val_audio_idxs, decodeVars, trainVars, scoreVars, loadVars>>

SplitNext ==
    \/ RunnerPercentSplit
    \/ RunnerPresplit
    \/ BasePercentSplit
    \/ BasePresplit

SpecSplit == SplitInit /\ [][SplitNext]_vars

(***************************************************************************)
(* _convert_idx2sentence (base_runner.py:119-131) and the row evaluate()   *)
(* builds from what it returns (base_runner.py:264-270).                   *)
(*                                                                         *)
(* A Python value that is a str or a list is [type, value], so that the    *)
(* two are never confused.  The words of the logographic vocabulary are    *)
(* written in Latin letters: "mao", "zai", "shuijiao".                     *)
(***************************************************************************)
\* vocabulary.idx2word
Idx2Word(logographic) ==
    IF logographic
    THEN [i \in 0..4 |-> <<"<start>", "<end>", "mao", "zai", "shuijiao">>[i + 1]]
    ELSE [i \in 0..4 |-> <<"<start>", "<end>", "a", "cat", "sleeps">>[i + 1]]

WordIds == 0..4

\* sep.join(tokens)
RECURSIVE Join(_, _)
Join(tokens, sep) ==
    IF tokens = <<>> THEN ""
    ELSE IF Len(tokens) = 1 THEN tokens[1]
    ELSE tokens[1] \o sep \o Join(Tail(tokens), sep)

\* text.split(): the maximal runs of non-blank characters, word is the run
\* being read
RECURSIVE Split(_, _)
Split(text, word) ==
    IF Len(text) = 0 THEN (IF word = "" THEN <<>> ELSE <<word>>)
    ELSE IF Head(text) = " "
         THEN (IF word = "" THEN <<>> ELSE <<word>>) \o Split(Tail(text), "")
         ELSE Split(Tail(text), word \o Head(text))

RECURSIVE SurvivingNoBreak(_, _)
SurvivingNoBreak(ids, idx2word) ==
    IF ids = <<>> THEN <<>>
    ELSE LET word == idx2word[Head(ids)]
         IN  IF word = "<end>" \/ word = "<start>"
             THEN SurvivingNoBreak(Tail(ids), idx2word)
             ELSE <<word>> \o SurvivingNoBreak(Tail(ids), idx2word)

\* base_runner.py:121-128, the loop: break at "<end>", skip "<start>"
RECURSIVE Surviving(_, _)
Surviving(ids, idx2word) ==
    IF ids = <<>> THEN <<>>
    ELSE LET word == idx2word[Head(ids)]
         IN  IF word = "<end>" THEN <<>>
             ELSE IF word = "<start>" THEN Surviving(Tail(ids), idx2word)
             ELSE <<word>> \o Surviving(Tail(ids), idx2word)

ConvertAlwaysJoins(ids, idx2word, logographic) ==
    [type |-> "str", value |-> Join(Surviving(ids, idx2word), " ")]

\* base_runner.py:119-131
ConvertIdx2Sentence(ids, idx2word, logographic) ==
    IF ~logographic
    THEN [type |-> "str", value |-> Join(Surviving(ids, idx2word), " ")]
    ELSE [type |-> "list", value |-> Surviving(ids, idx2word)]

\* base_runner.py:266-270, the row of pred_df for a prediction
PredRow(pred, logographic) ==
    [caption |-> IF logographic THEN Join(pred.value, "") ELSE pred.value,
     tokens |-> IF logographic THEN pred.value ELSE Split(pred.value, "")]

RECURSIVE SeqsUpTo(_, _)
SeqsUpTo(S, n) ==
    IF n = 0 THEN {<<>>}
    ELSE LET shorter == SeqsUpTo(S, n - 1)
         IN  shorter \cup {Append(q, x) : q \in {r \in shorter : Len(r) = n - 1}, x \in S}

SplitIdle ==
    /\ split_pc = "idle" /\ data_config = <<>>
    /\ train_audio_idxs = {} /\ val_audio_idxs = {}
    /\ train_df = {} /\ val_df = {}
    /\ train_key2refs = <<>> /\ val_key2refs = <<>>

DecodeInit ==
    /\ decode_pc = "input"
    /\ word_ids \in SeqsUpTo(WordIds, MaxLen)
    /\ zh \in BOOLEAN
    /\ candidate = <<>>
    /\ pred_row = <<>>
    /\ SplitIdle
    /\ TrainIdle
    /\ ScoreIdle
    /\ LoadIdle

\* the call of _convert_idx2sentence in _sample, base_runner.py:256
Convert ==
    /\ decode_pc = "input"
    /\ candidate' = ConvertIdx2Sentence(word_ids, Idx2Word(zh), zh)
    /\ decode_pc' = "converted"
    /\ UNCHANGED <<word_ids, zh, pred_row, splitVars, trainVars, scoreVars, loadVars>>

\* evaluate() appends the prediction to pred_df, base_runner.py:264-270
AppendPredRow ==
    /\ decode_pc = "converted"
    /\ pred_row' = PredRow(candidate, zh)
    /\ decode_pc' = "written"
    /\ UNCHANGED <<word_ids, zh, candidate, splitVars, trainVars, scoreVars, loadVars>>

DecodeNext ==
    \/ Convert
    \/ AppendPredRow

SpecDecode == DecodeInit /\ [][DecodeNext]_vars

(***************************************************************************)
(* Runner.train (run_structure.py:284-555).                                *)
(*                                                                         *)
(* One process of a run is modelled.  In a distributed run the process     *)
(* learns its rank from torch.distributed.get_rank(); any rank of the      *)
(* group may be the one observed.  train() is followed section by          *)
(* section; the two ignite engines fire the handlers of an event in the    *)
(* order in which they were registered.                                    *)
(*                                                                         *)
(* The scheduled-sampling ratio is a Python float with a sign,             *)
(* [neg, m, e]: its arithmetic is the binary64 arithmetic above.           *)
(***************************************************************************)
\* a + b + c
RECURSIVE LimbsAdd(_, _, _)
LimbsAdd(a, b, c) ==
    IF a = <<>> /\ b = <<>> THEN NatLimbs(c)
    ELSE LET x == IF a = <<>> THEN 0 ELSE Head(a)
             y == IF b = <<>> THEN 0 ELSE Head(b)
             t == x + y + c
         IN  <<t % Radix>> \o LimbsAdd(IF a = <<>> THEN <<>> ELSE Tail(a),
                                       IF b = <<>> THEN <<>> ELSE Tail(b),
                                       t \div Radix)

\* a * b
RECURSIVE LimbsMul(_, _)
LimbsMul(a, b) ==
    IF b = <<>> THEN <<>>
    ELSE LimbsAdd(LimbsMulSmall(a, Head(b), 0), <<0>> \o LimbsMul(a, Tail(b)), 0)

\* a <= b
LimbsLeq(a, b) ==
    LET x == Normal(a)
        y == Normal(b)
        differ == {i \in 1..Len(x) : Len(x) = Len(y) /\ x[i] # y[i]}
    IN  IF Len(x) # Len(y) THEN Len(x) < Len(y)
        ELSE IF differ = {} THEN TRUE
        ELSE LET top == CHOOSE i \in differ : \A j \in differ : j <= i
             IN  x[top] < y[top]

\* the float of magnitude x that is negative when neg; zero has no sign
Signed(neg, x) == [neg |-> neg /\ x.m # <<>>, m |-> x.m, e |-> x.e]

\* the magnitudes of x and y as multiples of one power of two
Aligned(x, y) ==
    LET e == IF x.e < y.e THEN x.e ELSE y.e
    IN  [a |-> ShiftLeftBits(x.m, x.e - e), b |-> ShiftLeftBits(y.m, y.e - e), e |-> e]

\* x - y
FSub(x, y) ==
    LET al == Aligned(x, y)
    IN  IF x.neg # y.neg
        THEN Signed(x.neg, FRound(LimbsAdd(al.a, al.b, 0), al.e, FALSE))
        ELSE IF LimbsLeq(al.b, al.a)
             THEN Signed(x.neg, FRound(LimbsSub(al.a, al.b, 0), al.e, FALSE))
             ELSE Signed(~x.neg, FRound(LimbsSub(al.b, al.a, 0), al.e, FALSE))

\* x * y
FMul(x, y) == Signed(x.neg # y.neg, FRound(LimbsMul(x.m, y.m), x.e + y.e, FALSE))

\* x / float(d) for a float x >= 0 and a small natural d > 0
FDivSmall(x, d) ==
    LET qr == LimbsDivSmall(ShiftLeftBits(x.m, 64), d)
    IN  FRound(qr.q, x.e - 64, qr.r # 0)

\* |x - y| <= n * 2^k
FAbsDiffLeq(x, y, n, k) ==
    LET al == Aligned(x, y)
        diff == IF x.neg # y.neg THEN LimbsAdd(al.a, al.b, 0)
                ELSE IF LimbsLeq(al.b, al.a) THEN LimbsSub(al.a, al.b, 0)
                ELSE LimbsSub(al.b, al.a, 0)
    IN  IF al.e >= k THEN LimbsLeq(ShiftLeftBits(diff, al.e - k), NatLimbs(n))
        ELSE LimbsLeq(diff, ShiftLeftBits(NatLimbs(n), k - al.e))

\* the floats 1.0, 0.5 and 0.0
FOne == [neg |-> FALSE, m |-> <<1>>, e |-> 0]
FHalf == [neg |-> FALSE, m |-> <<1>>, e |-> -1]
FNought == [neg |-> FALSE, m |-> <<>>, e |-> 0]

\* 0.01 ** (1.0 / total_iters) for total_iters = 1, 2, ...: the doubles
\* CPython computes (x86-64, glibc), mantissa in limbs
Pow001Table ==
    <<
        [m |-> <<5243, 3932, 27525, 163>>, e |-> -59],
        [m |-> <<6554, 13107, 26214, 204>>, e |-> -56],
        [m |-> <<13234, 7553, 20123, 220>>, e |-> -55],
        [m |-> <<18703, 17552, 29773, 161>>, e |-> -54],
        [m |-> <<9395, 32490, 27225, 203>>, e |-> -54],
        [m |-> <<20467, 27671, 21277, 237>>, e |-> -54],
        [m |-> <<21369, 8945, 19482, 132>>, e |-> -53],
        [m |-> <<14366, 30776, 31436, 143>>, e |-> -53],
        [m |-> <<18464, 12389, 15334, 153>>, e |-> -53],
        [m |-> <<21624, 27117, 17205, 161>>, e |-> -53],
        [m |-> <<25848, 29878, 14119, 168>>, e |-> -53],
        [m |-> <<6537, 3304, 13460, 174>>, e |-> -53],
        [m |-> <<16581, 11495, 20846, 179>>, e |-> -53],
        [m |-> <<4610, 32572, 7848, 184>>, e |-> -53],
        [m |-> <<14145, 16413, 10630, 188>>, e |-> -53],
        [m |-> <<23962, 18466, 31880, 191>>, e |-> -53]
    >>

Pow001(total_iters) == Signed(FALSE, Pow001Table[total_iters])

Files == {"best.pth", "last.pth", "swa.pth", "config.yaml"}

Scores == 0..MaxScore

Ranks == 0..(WorldSize - 1)

ValKeySet == 1..NumValKeys

\* val_dataloader: the validation keys in batches of BatchSize, the last
\* batch holding what remains
ValDataloader ==
    LET count == (NumValKeys + BatchSize - 1) \div BatchSize
    IN  [b \in 1..count |->
            [i \in 1..(IF b * BatchSize <= NumValKeys THEN BatchSize
                       ELSE NumValKeys - (b - 1) * BatchSize) |->
                (b - 1) * BatchSize + i]]

\* the scheduler classes the model draws conf["scheduler"] from: the four of
\* run_structure.py:485, and one of captioning.utils.lr_scheduler
SchedulerClasses ==
    {"StepLR", "ReduceLROnPlateau", "ExponentialLR", "MultiStepLR",
     "ExponentialDecayScheduler"}

TorchSchedulers == {"StepLR", "ReduceLROnPlateau", "ExponentialLR", "MultiStepLR"}

EpochSteppedOnlyPlateau == {"ReduceLROnPlateau"}

\* run_structure.py:485, the classes whose update_lr is registered on the
\* evaluator
EpochStepped == {"StepLR", "ReduceLROnPlateau", "ExponentialLR", "MultiStepLR"}

\* conf["ss"] and conf["ss_args"]; with scheduled sampling off only
\* ss_ratio is read
SsConfigs ==
    {[ss |-> FALSE, ss_mode |-> "exponential", ss_ratio |-> FOne,
      final_ss_ratio |-> FNought]}
    \cup
    {[ss |-> TRUE, ss_mode |-> "exponential", ss_ratio |-> r,
      final_ss_ratio |-> FNought] : r \in {FOne, FHalf}}
    \cup
    {[ss |-> TRUE, ss_mode |-> "linear", ss_ratio |-> r, final_ss_ratio |-> f] :
        r \in {FOne, FHalf}, f \in {FNought, FHalf}}

TrainConfigs ==
    {[distributed |-> dist, ss_args |-> ss, swa |-> swa, swa_start |-> 1,
      scheduler |-> sched, epochs |-> epochs, num_iter |-> num_iter,
      improvecriterion |-> crit, val_structure_index |-> structure] :
        dist \in BOOLEAN, ss \in SsConfigs, swa \in BOOLEAN,
        sched \in SchedulerClasses, epochs \in 1..MaxEpochs,
        num_iter \in 1..MaxIters, crit \in {"max", "min"},
        structure \in {0, 1}}

\* `not conf["distributed"] or not self.local_rank`, run_structure.py:303
IsMainProcess == ~conf.distributed \/ local_rank = 0

AddEventHandlerFirst(registered, handler) == <<handler>> \o registered

\* Engine.on and Engine.add_event_handler: the handlers of an event are
\* called in the order in which they were registered
AddEventHandler(registered, handler) == Append(registered, handler)

NoHandlers ==
    [iteration_started |-> <<>>, epoch_completed |-> <<>>,
     evaluator_epoch_completed |-> <<>>]

TrainInit ==
    /\ pc = "init_distributed"
    /\ conf \in TrainConfigs
    /\ local_rank = -1
    /\ bound = {} /\ refs = {} /\ io = {}
    /\ writes = [f \in Files |-> 0]
    /\ saved = [f \in {"best.pth", "last.pth"} |-> <<>>]
    /\ handlers = NoHandlers
    /\ trainer = [epoch |-> 0, iteration |-> 0, batch |-> 0]
    /\ evaluator = [runs |-> 0, batch |-> 0, metrics |-> <<>>]
    /\ pending = <<>> /\ eval_pending = <<>>
    /\ ss_ratio = conf.ss_args.ss_ratio
    /\ ss_updates = 0
    /\ key2pred = <<>> /\ scored = <<>>
    /\ scheduler = [iter_steps |-> 0, eval_steps |-> 0, metric_steps |-> 0,
                    last_metric |-> <<>>]
    /\ best_value = <<>>
    /\ score_history = <<>> /\ best_history = <<>>
    /\ net = [optimizer_steps |-> 0, swa_updates |-> 0, sampler_epoch |-> 0,
              last_forward |-> <<>>, drawn |-> <<>>]
    /\ SplitIdle
    /\ DecodeIdle
    /\ ScoreIdle
    /\ LoadIdle

engineVars == <<handlers, trainer, evaluator, pending, eval_pending>>
lossVars == <<ss_ratio, ss_updates, key2pred, scored, scheduler, best_value,
              score_history, best_history, net>>
otherVars == <<splitVars, decodeVars, scoreVars, loadVars>>

\* run_structure.py:291-297
InitDistributed ==
    /\ pc = "init_distributed"
    /\ IF conf.distributed
       THEN \E rank \in Ranks : local_rank' = rank
       ELSE UNCHANGED local_rank
    /\ pc' = "create_checkpoint_dir"
    /\ UNCHANGED <<conf, bound, refs, io, writes, saved, engineVars, lossVars, otherVars>>

\* run_structure.py:303-316
CreateCheckpointDir ==
    /\ pc = "create_checkpoint_dir"
    /\ IF IsMainProcess
       THEN /\ bound' = bound \cup {"outputdir", "logger"}
            /\ refs' = refs \cup {"outputdir", "logger"}
            /\ io' = io \cup {"mkdir", "log"}
       ELSE UNCHANGED <<bound, refs, io>>
    /\ pc' = "create_dataloaders"
    /\ UNCHANGED <<conf, local_rank, writes, saved, engineVars, lossVars, otherVars>>

\* run_structure.py:321-332; line 331 evaluates logger.info on every rank,
\* and a local name that is not bound raises UnboundLocalError
CreateDataloaders ==
    /\ pc = "create_dataloaders"
    /\ refs' = refs \cup {"logger"}
    /\ IF "logger" \in bound
       THEN io' = io \cup {"log"} /\ pc' = "init_model"
       ELSE io' = io /\ pc' = "raised"
    /\ UNCHANGED <<conf, local_rank, bound, writes, saved, engineVars, lossVars, otherVars>>

\* run_structure.py:337-351
InitModel ==
    /\ pc = "init_model"
    /\ IF IsMainProcess
       THEN refs' = refs \cup {"logger"} /\ io' = io \cup {"log"}
       ELSE UNCHANGED <<refs, io>>
    /\ pc' = "create_criterion"
    /\ UNCHANGED <<conf, local_rank, bound, writes, saved, engineVars, lossVars, otherVars>>

\* run_structure.py:356-363
CreateCriterion ==
    /\ pc = "create_criterion"
    /\ IF IsMainProcess
       THEN /\ refs' = refs \cup {"logger"}
            /\ io' = io \cup {"log"}
            /\ bound' = bound \cup {"crtrn_imprvd"}
       ELSE UNCHANGED <<refs, io, bound>>
    /\ pc' = "create_tensorboard"
    /\ UNCHANGED <<conf, local_rank, writes, saved, engineVars, lossVars, otherVars>>

\* run_structure.py:368-369
CreateTensorboard ==
    /\ pc = "create_tensorboard"
    /\ IF IsMainProcess
       THEN /\ refs' = refs \cup {"outputdir"}
            /\ io' = io \cup {"tensorboard"}
            /\ bound' = bound \cup {"tensorboard_writer"}
       ELSE UNCHANGED <<refs, io, bound>>
    /\ pc' = "define_trainer"
    /\ UNCHANGED <<conf, local_rank, writes, saved, engineVars, lossVars, otherVars>>

\* run_structure.py:397-428: the handlers of the trainer that every rank
\* registers
DefineTrainer ==
    /\ pc = "define_trainer"
    /\ handlers' =
         [handlers EXCEPT
            !.iteration_started =
                IF conf.ss_args.ss THEN AddEventHandler(@, "update_ss_ratio") ELSE @,
            !.epoch_completed =
                IF conf.swa THEN AddEventHandler(@, "update_swa") ELSE @]
    /\ pc' = "define_evaluator"
    /\ UNCHANGED <<conf, local_rank, bound, refs, io, writes, saved, trainer, evaluator,
                   pending, eval_pending, lossVars, otherVars>>

\* run_structure.py:433-457
DefineEvaluator ==
    /\ pc = "define_evaluator"
    /\ key2pred' = <<>>
    /\ handlers' = [handlers EXCEPT !.evaluator_epoch_completed = AddEventHandler(@, "eval_val")]
    /\ pc' = "create_scheduler"
    /\ UNCHANGED <<conf, local_rank, bound, refs, io, writes, saved, trainer, evaluator,
                   pending, eval_pending, ss_ratio, ss_updates, scored, scheduler,
                   best_value, score_history, best_history, net, otherVars>>

\* run_structure.py:462-488: a class that torch.optim.lr_scheduler lacks is
\* taken from captioning.utils.lr_scheduler and its warm-up is logged
CreateScheduler ==
    /\ pc = "create_scheduler"
    /\ IF conf.scheduler \notin TorchSchedulers /\ IsMainProcess
       THEN refs' = refs \cup {"logger"} /\ io' = io \cup {"log"}
       ELSE UNCHANGED <<refs, io>>
    /\ handlers' =
         IF conf.scheduler \in EpochStepped
         THEN [handlers EXCEPT
                 !.evaluator_epoch_completed = AddEventHandler(@, "update_lr")]
         ELSE [handlers EXCEPT !.iteration_started = AddEventHandler(@, "update_lr")]
    /\ pc' = "main_process_events"
    /\ UNCHANGED <<conf, local_rank, bound, writes, saved, trainer, evaluator, pending,
                   eval_pending, lossVars, otherVars>>

\* run_structure.py:495-538
MainProcessEvents ==
    /\ pc = "main_process_events"
    /\ IF IsMainProcess
       THEN /\ handlers' =
                 [handlers EXCEPT
                    !.epoch_completed = AddEventHandler(@, "log_results"),
                    !.evaluator_epoch_completed = AddEventHandler(@, "save_model")]
            /\ refs' = refs \cup {"outputdir"}
            /\ io' = io \cup {"config"}
            /\ writes' = [writes EXCEPT !["config.yaml"] = @ + 1]
       ELSE UNCHANGED <<handlers, refs, io, writes>>
    /\ pc' = "trainer_run"
    /\ UNCHANGED <<conf, local_rank, bound, saved, trainer, evaluator, pending,
                   eval_pending, lossVars, otherVars>>

TotalItersPerEpoch(num_iter, num_epoch) == num_iter

\* run_structure.py:413-415
TotalIters(num_iter, num_epoch) == num_iter * num_epoch

SsRatioKept(ratio, ss_args, total_iters) == ratio

\* run_structure.py:416-421, the ratio after one call of update_ss_ratio
SsRatioAfter(ratio, ss_args, total_iters) ==
    IF ss_args.ss_mode = "exponential"
    THEN FMul(ratio, Pow001(total_iters))
    ELSE IF ss_args.ss_mode = "linear"
         THEN FSub(ratio, Signed(FALSE, FDivSmall(FOneMinus(ss_args.final_ss_ratio),
                                                  total_iters)))
         ELSE ratio

\* dict[key] = value
Put(dict, key, value) ==
    [x \in DOMAIN dict \cup {key} |-> IF x = key THEN value ELSE dict[x]]

\* run_structure.py:443-445, the loop over the sequences of a batch from
\* index idx on; the caption decoded for a key in an evaluation run is
\* [key, run]
RECURSIVE StoreCandidates(_, _, _, _)
StoreCandidates(dict, keys, run, idx) ==
    IF idx > Len(keys) THEN dict
    ELSE StoreCandidates(Put(dict, keys[idx], <<[key |-> keys[idx], run |-> run]>>),
                         keys, run, idx + 1)

UnclearedKey2Pred(dict) == dict

\* run_structure.py:455, key2pred.clear()
ClearedKey2Pred(dict) == <<>>

\* train_util.criterion_improver: whether x improves on the best value seen
\* (best = <<>> while no value was seen), in the configured direction
CriterionImproved(mode, best, x) ==
    \/ best = <<>>
    \/ best # <<>> /\ mode = "max" /\ x > best[1]
    \/ best # <<>> /\ mode = "min" /\ x < best[1]

\* train_util.criterion_improver: the best value after x was seen
CriterionBest(mode, best, x) ==
    IF CriterionImproved(mode, best, x) THEN <<x>> ELSE best

SaveModelFilesEither(improved) ==
    IF improved THEN {"best.pth"} ELSE {"last.pth"}

\* run_structure.py:532-534, the files one call of save_model writes
SaveModelFiles(improved) ==
    IF improved THEN {"best.pth", "last.pth"} ELSE {"last.pth"}

\* run_structure.py:477-483, update_lr called with `metric`: <<>> is None
SchedulerAfterStep(sched, class, metric, metrics, event) ==
    LET counted == IF event = "iteration"
                   THEN [sched EXCEPT !.iter_steps = @ + 1]
                   ELSE [sched EXCEPT !.eval_steps = @ + 1]
    IN  IF class = "ReduceLROnPlateau"
        THEN [counted EXCEPT !.metric_steps = @ + 1,
                             !.last_metric = <<metrics[metric[1]]>>]
        ELSE [counted EXCEPT !.last_metric = <<>>]

ForwardModeKept(mode) == mode

\* run_structure.py:246
ForwardMode(mode) == IF mode = "train" THEN "train" ELSE "inference"

\* run_structure.py:218-275, the input_dict _forward calls the model with.
\* size is the number of examples of the batch.  In mode "train" the
\* structure labels are batch[3], the ground truth (ground_truth is TRUE);
\* in the other modes no element of the batch is read as a structure label
\* and every example gets kwargs["structure"].
Forward(mode, size, kwargs) ==
    IF mode = "train"
    THEN [mode |-> ForwardMode(mode), ground_truth |-> TRUE,
          ss_ratio |-> kwargs.ss_ratio]
    ELSE [mode |-> ForwardMode(mode), ground_truth |-> FALSE,
          structures |-> [example \in 1..size |-> kwargs.structure],
          sample_method |-> kwargs.sample_method, beam_size |-> kwargs.beam_size,
          structure |-> kwargs.structure]

\* run_structure.py:543, trainer.run: the engine starts at epoch 0
TrainerRun ==
    /\ pc = "trainer_run"
    /\ trainer' = [epoch |-> 0, iteration |-> 0, batch |-> 0]
    /\ pending' = <<>>
    /\ pc' = "epoch_started"
    /\ UNCHANGED <<conf, local_rank, bound, refs, io, writes, saved, handlers, evaluator,
                   eval_pending, lossVars, otherVars>>

\* the trainer begins its next epoch
TrainerEpochStarted ==
    /\ pc = "epoch_started"
    /\ trainer.epoch < conf.epochs
    /\ trainer' = [trainer EXCEPT !.epoch = @ + 1, !.batch = 0]
    /\ pc' = "next_batch"
    /\ UNCHANGED <<conf, local_rank, bound, refs, io, writes, saved, handlers, evaluator,
                   pending, eval_pending, lossVars, otherVars>>

\* the trainer takes the next batch and fires ITERATION_STARTED.  The first
\* batch of an epoch is the first the iterator of train_dataloader is asked
\* for: the sampler draws the index order of the epoch then, from the epoch
\* it was last set to.
TrainerIterationStarted ==
    /\ pc = "next_batch"
    /\ trainer.batch < conf.num_iter
    /\ trainer' = [trainer EXCEPT !.iteration = @ + 1, !.batch = @ + 1]
    /\ net' = IF trainer.batch = 0
              THEN [net EXCEPT !.drawn = Append(@, net.sampler_epoch)]
              ELSE net
    /\ pending' = handlers.iteration_started
    /\ pc' = "iteration_started"
    /\ UNCHANGED <<conf, local_rank, bound, refs, io, writes, saved, handlers, evaluator,
                   eval_pending, ss_ratio, ss_updates, key2pred, scored, scheduler,
                   best_value, score_history, best_history, otherVars>>

\* run_structure.py:411-421
UpdateSsRatio ==
    /\ pc = "iteration_started"
    /\ pending # <<>> /\ Head(pending) = "update_ss_ratio"
    /\ ss_ratio' = SsRatioAfter(ss_ratio, conf.ss_args,
                                TotalIters(conf.num_iter, conf.epochs))
    /\ ss_updates' = ss_updates + 1
    /\ pending' = Tail(pending)
    /\ UNCHANGED <<pc, conf, local_rank, bound, refs, io, writes, saved, handlers, trainer,
                   evaluator, eval_pending, key2pred, scored, scheduler, best_value,
                   score_history, best_history, net, otherVars>>

\* run_structure.py:477-483 as registered at line 488
UpdateLrIteration ==
    /\ pc = "iteration_started"
    /\ pending # <<>> /\ Head(pending) = "update_lr"
    /\ scheduler' = SchedulerAfterStep(scheduler, conf.scheduler, <<>>, <<>>,
                                       "iteration")
    /\ pending' = Tail(pending)
    /\ UNCHANGED <<pc, conf, local_rank, bound, refs, io, writes, saved, handlers, trainer,
                   evaluator, eval_pending, ss_ratio, ss_updates, key2pred, scored,
                   best_value, score_history, best_history, net, otherVars>>

\* run_structure.py:374-395, then the end of the iteration: the next batch,
\* or EPOCH_COMPLETED after the last one
TrainBatch ==
    /\ pc = "iteration_started"
    /\ pending = <<>>
    /\ net' = [net EXCEPT
                 !.sampler_epoch = IF conf.distributed THEN trainer.epoch ELSE @,
                 !.last_forward = Forward("train", BatchSize, [ss_ratio |-> ss_ratio]),
                 !.optimizer_steps = @ + 1]
    /\ IF IsMainProcess
       THEN refs' = refs \cup {"tensorboard_writer"} /\ io' = io \cup {"tensorboard"}
       ELSE UNCHANGED <<refs, io>>
    /\ IF trainer.batch < conf.num_iter
       THEN pc' = "next_batch" /\ pending' = pending
       ELSE pc' = "epoch_completed" /\ pending' = handlers.epoch_completed
    /\ UNCHANGED <<conf, local_rank, bound, writes, saved, handlers, trainer, evaluator,
                   eval_pending, ss_ratio, ss_updates, key2pred, scored, scheduler,
                   best_value, score_history, best_history, otherVars>>

\* run_structure.py:425-428
UpdateSwa ==
    /\ pc = "epoch_completed"
    /\ pending # <<>> /\ Head(pending) = "update_swa"
    /\ net' = IF trainer.epoch >= conf.swa_start
              THEN [net EXCEPT !.swa_updates = @ + 1]
              ELSE net
    /\ pending' = Tail(pending)
    /\ UNCHANGED <<pc, conf, local_rank, bound, refs, io, writes, saved, handlers, trainer,
                   evaluator, eval_pending, ss_ratio, ss_updates, key2pred, scored,
                   scheduler, best_value, score_history, best_history, otherVars>>

\* run_structure.py:498-500, log_results up to evaluator.run(val_dataloader)
LogResults ==
    /\ pc = "epoch_completed"
    /\ pending # <<>> /\ Head(pending) = "log_results"
    /\ evaluator' = [evaluator EXCEPT !.runs = @ + 1, !.batch = 0]
    /\ pending' = Tail(pending)
    /\ pc' = "evaluator_next_batch"
    /\ UNCHANGED <<conf, local_rank, bound, refs, io, writes, saved, handlers, trainer,
                   eval_pending, lossVars, otherVars>>

\* run_structure.py:435-446, then the end of the evaluator's iteration: the
\* next batch, or EPOCH_COMPLETED after the last one
Inference ==
    /\ pc = "evaluator_next_batch"
    /\ evaluator.batch < Len(ValDataloader)
    /\ LET keys == ValDataloader[evaluator.batch + 1]
       IN  /\ key2pred' = StoreCandidates(key2pred, keys, evaluator.runs, 1)
           /\ net' = [net EXCEPT
                        !.last_forward =
                            Forward("validation", Len(keys),
                                    [sample_method |-> "beam", beam_size |-> 3,
                                     structure |-> conf.val_structure_index])]
    /\ evaluator' = [evaluator EXCEPT !.batch = @ + 1]
    /\ IF evaluator.batch + 1 < Len(ValDataloader)
       THEN pc' = pc /\ eval_pending' = eval_pending
       ELSE pc' = "evaluator_epoch_completed"
            /\ eval_pending' = handlers.evaluator_epoch_completed
    /\ UNCHANGED <<conf, local_rank, bound, refs, io, writes, saved, handlers, trainer,
                   pending, ss_ratio, ss_updates, scored, scheduler, best_value,
                   score_history, best_history, otherVars>>

\* run_structure.py:450-455; the scorer is outside the model, its score is
\* any of Scores
EvalVal ==
    /\ pc = "evaluator_epoch_completed"
    /\ eval_pending # <<>> /\ Head(eval_pending) = "eval_val"
    /\ \E score \in Scores :
         /\ evaluator' = [evaluator EXCEPT !.metrics = Put(@, "score", score)]
         /\ score_history' = Append(score_history, score)
    /\ scored' = key2pred
    /\ key2pred' = ClearedKey2Pred(key2pred)
    /\ eval_pending' = Tail(eval_pending)
    /\ UNCHANGED <<pc, conf, local_rank, bound, refs, io, writes, saved, handlers, trainer,
                   pending, ss_ratio, ss_updates, scheduler, best_value,
                   best_history, net, otherVars>>

\* run_structure.py:477-483 as registered at line 486, with metric "score"
UpdateLrEvaluation ==
    /\ pc = "evaluator_epoch_completed"
    /\ eval_pending # <<>> /\ Head(eval_pending) = "update_lr"
    /\ scheduler' = SchedulerAfterStep(scheduler, conf.scheduler, <<"score">>,
                                       evaluator.metrics, "evaluation")
    /\ eval_pending' = Tail(eval_pending)
    /\ UNCHANGED <<pc, conf, local_rank, bound, refs, io, writes, saved, handlers, trainer,
                   evaluator, pending, ss_ratio, ss_updates, key2pred, scored,
                   best_value, score_history, best_history, net, otherVars>>

\* run_structure.py:525-531, what save_model saves: the parameters after the
\* optimizer steps made so far and scheduler.state_dict()
Dump == [model |-> net.optimizer_steps, lr_scheduler |-> scheduler]

\* run_structure.py:524-534
SaveModel ==
    /\ pc = "evaluator_epoch_completed"
    /\ eval_pending # <<>> /\ Head(eval_pending) = "save_model"
    /\ LET score == evaluator.metrics["score"]
           improved == CriterionImproved(conf.improvecriterion, best_value, score)
           files == SaveModelFiles(improved)
       IN  /\ best_value' = CriterionBest(conf.improvecriterion, best_value, score)
           /\ writes' = [f \in Files |-> IF f \in files THEN writes[f] + 1
                                         ELSE writes[f]]
           /\ saved' = [f \in DOMAIN saved |-> IF f \in files THEN Dump ELSE saved[f]]
           /\ best_history' = Append(best_history, "best.pth" \in files)
    /\ refs' = refs \cup {"crtrn_imprvd", "outputdir"}
    /\ io' = io \cup {"checkpoint"}
    /\ eval_pending' = Tail(eval_pending)
    /\ UNCHANGED <<pc, conf, local_rank, bound, handlers, trainer, evaluator,
                   pending, ss_ratio, ss_updates, key2pred, scored, scheduler,
                   score_history, net, otherVars>>

\* run_structure.py:501-521, log_results after evaluator.run returned
LogResultsReturn ==
    /\ pc = "evaluator_epoch_completed"
    /\ eval_pending = <<>>
    /\ refs' = refs \cup {"tensorboard_writer", "logger"}
    /\ io' = io \cup {"tensorboard", "log"}
    /\ pc' = "epoch_completed"
    /\ UNCHANGED <<conf, local_rank, bound, writes, saved, engineVars, lossVars, otherVars>>

\* the handlers of EPOCH_COMPLETED have run: the next epoch, or the end of
\* trainer.run
TrainerEpochCompleted ==
    /\ pc = "epoch_completed"
    /\ pending = <<>>
    /\ pc' = IF trainer.epoch < conf.epochs THEN "epoch_started" ELSE "swa_save"
    /\ UNCHANGED <<conf, local_rank, bound, refs, io, writes, saved, engineVars, lossVars,
                   otherVars>>

\* run_structure.py:546-551; outputdir is evaluated on every rank
SwaSave ==
    /\ pc = "swa_save"
    /\ IF ~conf.swa
       THEN pc' = "return" /\ UNCHANGED <<refs, io, writes>>
       ELSE /\ refs' = refs \cup {"outputdir"}
            /\ IF "outputdir" \in bound
               THEN /\ io' = io \cup {"checkpoint"}
                    /\ writes' = [writes EXCEPT !["swa.pth"] = @ + 1]
                    /\ pc' = "return"
               ELSE /\ pc' = "raised"
                    /\ UNCHANGED <<io, writes>>
    /\ UNCHANGED <<conf, local_rank, bound, saved, engineVars, lossVars, otherVars>>

\* run_structure.py:554-555
Return ==
    /\ pc = "return"
    /\ IF IsMainProcess THEN refs' = refs \cup {"outputdir"} ELSE UNCHANGED refs
    /\ pc' = "done"
    /\ UNCHANGED <<conf, local_rank, bound, io, writes, saved, engineVars, lossVars,
                   otherVars>>

Next ==
    \/ InitDistributed
    \/ CreateCheckpointDir
    \/ CreateDataloaders
    \/ InitModel
    \/ CreateCriterion
    \/ CreateTensorboard
    \/ DefineTrainer
    \/ DefineEvaluator
    \/ CreateScheduler
    \/ MainProcessEvents
    \/ TrainerRun
    \/ TrainerEpochStarted
    \/ TrainerIterationStarted
    \/ UpdateSsRatio
    \/ UpdateLrIteration
    \/ TrainBatch
    \/ UpdateSwa
    \/ LogResults
    \/ Inference
    \/ EvalVal
    \/ UpdateLrEvaluation
    \/ SaveModel
    \/ LogResultsReturn
    \/ TrainerEpochCompleted
    \/ SwaSave
    \/ Return

Spec == TrainInit /\ [][Next]_vars

(***************************************************************************)
(* The score report of BaseRunner.evaluate (base_runner.py:294-342).       *)
(*                                                                         *)
(* evaluate() opens the report, calls the scorers one after the other and  *)
(* writes a line (four for BLEU) after each.  A scorer is outside the      *)
(* model: its compute_score either returns or raises, and the scorers      *)
(* that raise are an input of the run, report_conf.failing.  evaluate()    *)
(* has no try, with or finally around these calls, so an exception leaves  *)
(* it at once.                                                             *)
(***************************************************************************)
Scorers ==
    {"Bleu", "Rouge", "Cider", "Meteor", "Spice", "SentenceBert", "Diversity"}

\* base_runner.py:309-310
BleuLabels == <<"Bleu-1", "Bleu-2", "Bleu-3", "Bleu-4">>

ReportConfigs ==
    [zh : BOOLEAN, caption_embedding_path : BOOLEAN, failing : SUBSET Scorers]

MeteorSpiceAlways(logographic) == TRUE

\* base_runner.py:320, `if not zh`
MeteorSpiceApply(logographic) == ~logographic

ScoreInit ==
    /\ report_pc = "open_report"
    /\ report_conf \in ReportConfigs
    /\ report_file = "unopened"
    /\ report_lines = <<>>
    /\ computed = <<>>
    /\ SplitIdle
    /\ DecodeIdle
    /\ TrainIdle
    /\ LoadIdle

\* scorer.compute_score(refs, key2pred) and the f.write calls after it; an
\* exception of compute_score leaves evaluate()
RunScorer(scorer, gts, labels, then) ==
    /\ IF scorer \in report_conf.failing
       THEN /\ report_pc' = "raised"
            /\ UNCHANGED <<report_lines, computed>>
       ELSE /\ computed' = Append(computed, [scorer |-> scorer, gts |-> gts])
            /\ report_lines' = report_lines \o labels
            /\ report_pc' = then
    /\ UNCHANGED <<report_conf, report_file, splitVars, decodeVars, trainVars,
                   loadVars>>

\* base_runner.py:305
OpenReport ==
    /\ report_pc = "open_report"
    /\ report_file' = "open"
    /\ report_pc' = "bleu"
    /\ UNCHANGED <<report_conf, report_lines, computed, splitVars, decodeVars,
                   trainVars, loadVars>>

\* base_runner.py:307-310
ScoreBleu ==
    /\ report_pc = "bleu"
    /\ RunScorer("Bleu", "key2refs", BleuLabels, "rouge")

\* base_runner.py:312-314
ScoreRouge ==
    /\ report_pc = "rouge"
    /\ RunScorer("Rouge", "key2refs", <<"ROUGE">>, "cider")

\* base_runner.py:316-320
ScoreCider ==
    /\ report_pc = "cider"
    /\ RunScorer("Cider", "key2refs", <<"CIDEr">>,
                 IF MeteorSpiceApply(report_conf.zh) THEN "meteor"
                 ELSE "sentence_bert")

\* base_runner.py:321-323
ScoreMeteor ==
    /\ report_pc = "meteor"
    /\ RunScorer("Meteor", "key2refs", <<"Meteor">>, "spice")

\* base_runner.py:325-327
ScoreSpice ==
    /\ report_pc = "spice"
    /\ RunScorer("Spice", "key2refs", <<"Spice">>, "sentence_bert")

\* base_runner.py:329-336
ScoreSentenceBert ==
    /\ report_pc = "sentence_bert"
    /\ RunScorer("SentenceBert",
                 IF report_conf.caption_embedding_path THEN "key2ref_embeds"
                 ELSE "key2refs",
                 <<"SentenceBert">>, "diversity")

\* base_runner.py:338-340
ScoreDiversity ==
    /\ report_pc = "diversity"
    /\ RunScorer("Diversity", "pred_df", <<"Diversity">>, "close_report")

\* base_runner.py:342
CloseReport ==
    /\ report_pc = "close_report"
    /\ report_file' = "closed"
    /\ report_pc' = "done"
    /\ UNCHANGED <<report_conf, report_lines, computed, splitVars, decodeVars,
                   trainVars, loadVars>>

ScoreNext ==
    \/ OpenReport
    \/ ScoreBleu
    \/ ScoreRouge
    \/ ScoreCider
    \/ ScoreMeteor
    \/ ScoreSpice
    \/ ScoreSentenceBert
    \/ ScoreDiversity
    \/ CloseReport

SpecScore == ScoreInit /\ [][ScoreNext]_vars

(***************************************************************************)
(* Runner._get_dataloaders (run_structure.py:34-167), statement by         *)
(* statement: the keys of config["data"] it reads, the feature tables and  *)
(* caption files it loads and the datasets and dataloaders it builds.      *)
(*                                                                         *)
(* A feature table is the set of audio ids it has an entry for.  A lookup  *)
(* of a key a dict lacks raises KeyError.  ac_dataset is outside the       *)
(* sources: CaptionEvalDataset is given the three tables and nothing       *)
(* else; what CaptionConditionDataset does with an audio id of             *)
(* caption_info that a table lacks is taken from the specification.        *)
(***************************************************************************)
AudioIds == 1..MaxAudios

\* the keys of config["data"] that decide the path taken; "raw_feat_csv"
\* stands for the file keys of the flat layout, which are read first
DataConfigKeys == {"train", "val", "train_percent", "raw_feat_csv"}

FullTables == [raw_audio_to_h5 |-> AudioIds, fc_audio_to_h5 |-> AudioIds,
               attn_audio_to_h5 |-> AudioIds]

\* the three tables, complete or with one entry missing from one of them
FeatureTables ==
    {FullTables} \cup
    {[FullTables EXCEPT ![table] = AudioIds \ {audio_id}] :
        table \in DOMAIN FullTables, audio_id \in AudioIds}

\* the audio ids that have an entry in each of the three tables
InAllTables(tables) ==
    tables.raw_audio_to_h5 \cap tables.fc_audio_to_h5 \cap tables.attn_audio_to_h5

\* caption_info is the records of audio ids 1..records; val_audios is the
\* audio ids of the validation caption file of the explicit layout
LoadConfigs ==
    {[keys |-> keys, records |-> records, train_percent |-> percent,
      tables |-> tables, val_tables |-> val_tables, val_audios |-> val_audios] :
        keys \in SUBSET DataConfigKeys, records \in 0..MaxAudios,
        percent \in {0, 50, 100}, tables \in FeatureTables,
        val_tables \in FeatureTables, val_audios \in SUBSET AudioIds}

PolicyByPercent(keys) == IF "train_percent" \in keys THEN "percentage" ELSE "explicit"

\* run_structure.py:44 and 100
Policy(keys) == IF "train" \notin keys THEN "percentage" ELSE "explicit"

\* ac_dataset.CaptionConditionDataset(raw, fc, attn, caption_info, ...)
ConditionDatasetRaises(tables, audios) == ~(audios \subseteq InAllTables(tables))

LoadInit ==
    /\ load_pc = "select"
    /\ load_conf \in LoadConfigs
    /\ policy = <<>>
    /\ built = {}
    /\ load_error = ""
    /\ val_audio_ids = {}
    /\ SplitIdle
    /\ DecodeIdle
    /\ TrainIdle
    /\ ScoreIdle

loadOthers == <<splitVars, decodeVars, trainVars, scoreVars>>

\* run_structure.py:44
SelectPolicy ==
    /\ load_pc = "select"
    /\ policy' = Append(policy, Policy(load_conf.keys))
    /\ load_pc' = IF Policy(load_conf.keys) = "percentage" THEN "percent_load"
                  ELSE "explicit_load"
    /\ UNCHANGED <<load_conf, built, load_error, val_audio_ids, loadOthers>>

\* run_structure.py:45-55
PercentLoad ==
    /\ load_pc = "percent_load"
    /\ IF "raw_feat_csv" \in load_conf.keys
       THEN load_pc' = "percent_split" /\ UNCHANGED load_error
       ELSE load_pc' = "raised" /\ load_error' = "KeyError: raw_feat_csv"
    /\ UNCHANGED <<load_conf, policy, built, val_audio_ids, loadOthers>>

\* run_structure.py:56-58
PercentSplit ==
    /\ load_pc = "percent_split"
    /\ IF "train_percent" \in load_conf.keys
       THEN \E val_size \in {ValSize(load_conf.records, load_conf.train_percent)} :
            \E chosen \in KSubsets(1..load_conf.records, val_size) :
              /\ val_audio_ids' = chosen
              /\ load_pc' = "percent_train"
              /\ UNCHANGED load_error
       ELSE /\ load_pc' = "raised"
            /\ load_error' = "KeyError: train_percent"
            /\ UNCHANGED val_audio_ids
    /\ UNCHANGED <<load_conf, policy, built, loadOthers>>

\* run_structure.py:59-76
PercentTrainDataset ==
    /\ load_pc = "percent_train"
    /\ IF ConditionDatasetRaises(load_conf.tables, 1..load_conf.records)
       THEN /\ load_pc' = "raised"
            /\ load_error' = "MissingFeatureError"
            /\ UNCHANGED built
       ELSE /\ built' = built \cup {"train_dataset", "train_dataloader"}
            /\ load_pc' = "percent_val"
            /\ UNCHANGED load_error
    /\ UNCHANGED <<load_conf, policy, val_audio_ids, loadOthers>>

\* run_structure.py:77-87
PercentValDataset ==
    /\ load_pc = "percent_val"
    /\ IF val_audio_ids \subseteq InAllTables(load_conf.tables)
       THEN /\ built' = built \cup {"val_dataset", "val_dataloader"}
            /\ load_pc' = "key2refs"
            /\ UNCHANGED load_error
       ELSE /\ load_pc' = "raised"
            /\ load_error' = "KeyError: audio_id"
            /\ UNCHANGED built
    /\ UNCHANGED <<load_conf, policy, val_audio_ids, loadOthers>>

\* run_structure.py:101-115
ExplicitLoad ==
    /\ load_pc = "explicit_load"
    /\ IF "val" \in load_conf.keys
       THEN load_pc' = "explicit_train" /\ UNCHANGED load_error
       ELSE load_pc' = "raised" /\ load_error' = "KeyError: val"
    /\ UNCHANGED <<load_conf, policy, built, val_audio_ids, loadOthers>>

\* run_structure.py:117-133
ExplicitTrainDataset ==
    /\ load_pc = "explicit_train"
    /\ IF ConditionDatasetRaises(load_conf.tables, 1..load_conf.records)
       THEN /\ load_pc' = "raised"
            /\ load_error' = "MissingFeatureError"
            /\ UNCHANGED built
       ELSE /\ built' = built \cup {"train_dataset", "train_dataloader"}
            /\ load_pc' = "explicit_val"
            /\ UNCHANGED load_error
    /\ UNCHANGED <<load_conf, policy, val_audio_ids, loadOthers>>

\* run_structure.py:135-144: the dataset is built from the three tables of
\* the validation split; data["val"]["caption_info"] is not an argument
ExplicitValDataset ==
    /\ load_pc = "explicit_val"
    /\ built' = built \cup {"val_dataset", "val_dataloader"}
    /\ load_pc' = "key2refs"
    /\ UNCHANGED <<load_conf, policy, load_error, val_audio_ids, loadOthers>>

\* run_structure.py:88-99, 145-167
ReturnDataloaders ==
    /\ load_pc = "key2refs"
    /\ load_pc' = "returned"
    /\ UNCHANGED <<load_conf, policy, built, load_error, val_audio_ids, loadOthers>>

LoadNext ==
    \/ SelectPolicy
    \/ PercentLoad
    \/ PercentSplit
    \/ PercentTrainDataset
    \/ PercentValDataset
    \/ ExplicitLoad
    \/ ExplicitTrainDataset
    \/ ExplicitValDataset
    \/ ReturnDataloaders

SpecLoad == LoadInit /\ [][LoadNext]_vars

(***************************************************************************)
(* Properties of the split (checked under SpecSplit).                      *)
(***************************************************************************)
RecordCount == Cardinality(DOMAIN data_config.caption_file)

PercentBuilt == split_pc = "built" /\ ~data_config.presplit

TrainKeys == DOMAIN train_key2refs
ValKeys == DOMAIN val_key2refs

\* C1: under the percentage policy the training and the validation index sets
\* are disjoint and together are all record indexes 0..N-1 (Runner); the
\* training and validation key sets are disjoint and together are all unique
\* caption keys (BaseRunner).
C1_PercentSplitPartitions ==
    PercentBuilt =>
        IF data_config.runner = "Runner"
        THEN /\ train_audio_idxs \cap val_audio_idxs = {}
             /\ train_audio_idxs \cup val_audio_idxs = 0..(RecordCount - 1)
        ELSE /\ TrainKeys \cap ValKeys = {}
             /\ TrainKeys \cup ValKeys = UniqueKeys(data_config.caption_file)

C1_Witness ==
    /\ PercentBuilt
    /\ data_config.runner = "Runner"
    /\ Cardinality(train_audio_idxs) >= 2
    /\ Cardinality(val_audio_idxs) >= 2

FileIds(file) == {file[k].audio_id : k \in DOMAIN file}

C3_ExactSplitSizes ==
    LET total == IF data_config.runner = "Runner" THEN RecordCount
                 ELSE Cardinality(UniqueKeys(data_config.caption_file))
        expected == (total * data_config.train_percent) \div 100
    IN  (PercentBuilt /\ (total * data_config.train_percent) % 100 = 0) =>
            IF data_config.runner = "Runner"
            THEN /\ Cardinality(train_audio_idxs) = expected
                 /\ Cardinality(val_audio_idxs) = total - expected
            ELSE /\ Cardinality(TrainKeys) = expected
                 /\ Cardinality(ValKeys) = total - expected

(***************************************************************************)
(* Properties of the decoding (checked under SpecDecode).                  *)
(***************************************************************************)
Words == [i \in 1..Len(word_ids) |-> Idx2Word(zh)[word_ids[i]]]

\* the position of the first "<end>", or one past the last word
FirstEnd ==
    LET ends == {i \in 1..Len(word_ids) : Words[i] = "<end>"}
    IN  IF ends = {} THEN Len(word_ids) + 1
        ELSE CHOOSE i \in ends : \A j \in ends : i <= j

\* the words before the first "<end>" that are not "<start>", in order
KeptTokens == SelectSeq(SubSeq(Words, 1, FirstEnd - 1), LAMBDA w : w # "<start>")

\* the token list the returned value stands for
DecodedTokens ==
    IF candidate.type = "list" THEN candidate.value ELSE Split(candidate.value, "")

\* C4: the decoded token list is no longer than the id sequence, holds nothing
\* from the first "<end>" on, never holds "<start>", and keeps every other
\* token before the first "<end>", in order.
C4_DecodeStopsAtEnd ==
    decode_pc # "input" =>
        /\ Len(DecodedTokens) <= Len(word_ids)
        /\ \A i \in 1..Len(DecodedTokens) : DecodedTokens[i] \notin {"<start>", "<end>"}
        /\ DecodedTokens = KeptTokens

C4_Witness ==
    /\ decode_pc = "converted"
    /\ Len(word_ids) = 5
    /\ Words[1] = "<start>"
    /\ FirstEnd = 4
    /\ Words[5] \notin {"<start>", "<end>"}
    /\ Len(DecodedTokens) = 2

\* C5 as claimed: the value returned is a string, the surviving tokens
\* concatenated when zh is true and joined by single spaces when zh is false.
C5_ReturnsJoinedString ==
    decode_pc # "input" =>
        /\ candidate.type = "str"
        /\ candidate.value = Join(KeptTokens, IF zh THEN "" ELSE " ")

\* C5 as amended: when zh is false the value returned is the surviving tokens
\* joined by single spaces; when zh is true it is the list of the surviving
\* tokens, not joined, and evaluate() concatenates them with no separator
\* into the caption it writes.
C5_JoinedBySpaceOrListThenConcatenated ==
    /\ decode_pc # "input" =>
          IF zh THEN candidate = [type |-> "list", value |-> KeptTokens]
          ELSE candidate = [type |-> "str", value |-> Join(KeptTokens, " ")]
    /\ decode_pc = "written" =>
          pred_row.caption = Join(KeptTokens, IF zh THEN "" ELSE " ")

C5_Witness ==
    /\ decode_pc = "written"
    /\ zh
    /\ KeptTokens = <<"mao", "zai", "shuijiao">>
    /\ pred_row.caption = "maozaishuijiao"

(***************************************************************************)
(* Properties of Runner.train (checked under Spec).                        *)
(***************************************************************************)
\* trainer.run has returned
TrainerDone == pc \in {"swa_save", "return", "done"}

\* x is strictly better than y in the configured direction
StrictlyBetter(x, y) ==
    IF conf.improvecriterion = "max" THEN x > y ELSE x < y

\* the score of evaluation epoch k strictly improves on the score of every
\* earlier evaluation epoch of the run
ImprovesOnAllEarlier(k) ==
    \A j \in 1..(k - 1) : StrictlyBetter(score_history[k], score_history[j])

TotalIterations == conf.num_iter * conf.epochs

\* the float initial_ratio * 0.01
ExpectedExponential == FMul(conf.ss_args.ss_ratio, Pow001(1))

\* the float initial_ratio - (1.0 - final_ss_ratio)
ExpectedLinear ==
    FSub(conf.ss_args.ss_ratio, Signed(FALSE, FOneMinus(conf.ss_args.final_ss_ratio)))

\* C7 as claimed: after a complete run of len(train_dataloader) * epochs
\* iterations with scheduled sampling on, the ratio equals the initial ratio
\* times 0.01 under exponential decay and the initial ratio minus
\* (1 - final_ss_ratio) under linear decay.
C7_FinalSsRatioEquals ==
    (TrainerDone /\ conf.ss_args.ss) =>
        /\ trainer.iteration = TotalIterations
        /\ conf.ss_args.ss_mode = "exponential" =>
              FAbsDiffLeq(ss_ratio, ExpectedExponential, 0, 0)
        /\ conf.ss_args.ss_mode = "linear" =>
              FAbsDiffLeq(ss_ratio, ExpectedLinear, 0, 0)

\* C7 as amended: after such a run the ratio was updated once in each of the
\* len(train_dataloader) * epochs iterations and equals these values up to
\* the rounding of the float operations only: it differs from the initial
\* ratio times 0.01 by at most total_iterations * 2^-56 under exponential
\* decay, and from the initial ratio minus (1 - final_ss_ratio) by at most
\* total_iterations * 2^-52 under linear decay.
C7_FinalSsRatioWithinRounding ==
    (TrainerDone /\ conf.ss_args.ss) =>
        /\ trainer.iteration = TotalIterations
        /\ ss_updates = TotalIterations
        /\ conf.ss_args.ss_mode = "exponential" =>
              FAbsDiffLeq(ss_ratio, ExpectedExponential, TotalIterations, -56)
        /\ conf.ss_args.ss_mode = "linear" =>
              FAbsDiffLeq(ss_ratio, ExpectedLinear, TotalIterations, -52)

C7_Witness ==
    /\ pc = "done"
    /\ conf.ss_args.ss /\ conf.ss_args.ss_mode = "exponential"
    /\ conf.epochs >= 2 /\ conf.num_iter >= 2
    /\ ss_updates = TotalIterations
    /\ ~FAbsDiffLeq(ss_ratio, ExpectedExponential, 0, 0)
    /\ FAbsDiffLeq(ss_ratio, ExpectedExponential, 1, -56)

\* eval_val has run in the evaluation epoch the evaluator is in
EvalValDone == evaluator.runs > 0 /\ Len(score_history) = evaluator.runs

\* C8: when an evaluation epoch completes, the prediction map handed to the
\* scorer holds exactly one caption for every validation key of the epoch,
\* each predicted in that epoch; eval_val then stores one score in the
\* evaluator's metrics and leaves the prediction map empty.
C8_OnePredictionPerKeyThenCleared ==
    (pc # "idle" /\ EvalValDone) =>
        /\ DOMAIN scored = ValKeySet
        /\ \A k \in ValKeySet : scored[k] = <<[key |-> k, run |-> evaluator.runs]>>
        /\ DOMAIN evaluator.metrics = {"score"}
        /\ evaluator.metrics["score"] \in Scores
        /\ evaluator.metrics["score"] = score_history[evaluator.runs]
        /\ DOMAIN key2pred = {}

C8_Witness ==
    /\ pc = "evaluator_epoch_completed"
    /\ evaluator.runs = 2
    /\ EvalValDone
    /\ Cardinality(DOMAIN scored) = NumValKeys
    /\ DOMAIN key2pred = {}

\* the scheduler was stepped once, with the score, in every evaluation epoch
\* whose handlers have run, and at no iteration start
SteppedPerEvaluation(with_score) ==
    /\ scheduler.iter_steps = 0
    /\ pc # "evaluator_epoch_completed" => scheduler.eval_steps = Len(score_history)
    /\ pc = "evaluator_epoch_completed" =>
          scheduler.eval_steps \in {Len(score_history) - 1, Len(score_history)}
    /\ IF with_score
       THEN /\ scheduler.metric_steps = scheduler.eval_steps
            /\ scheduler.eval_steps > 0 =>
                  scheduler.last_metric = <<score_history[scheduler.eval_steps]>>
       ELSE scheduler.metric_steps = 0

\* the scheduler was stepped once at the start of every iteration, and at no
\* evaluation-epoch completion
SteppedPerIteration ==
    /\ scheduler.eval_steps = 0 /\ scheduler.metric_steps = 0
    /\ pc # "iteration_started" => scheduler.iter_steps = trainer.iteration
    /\ pc = "iteration_started" =>
          scheduler.iter_steps \in {trainer.iteration - 1, trainer.iteration}

\* C9 as claimed: the scheduler is stepped once per completed evaluation
\* epoch, with the score, exactly when it is ReduceLROnPlateau; every other
\* scheduler is stepped once at the start of every training iteration and
\* never at evaluation-epoch completion.
C9_OnlyPlateauSteppedPerEvaluation ==
    pc # "idle" =>
        IF conf.scheduler = "ReduceLROnPlateau"
        THEN SteppedPerEvaluation(TRUE)
        ELSE SteppedPerIteration

\* C9 as amended: the scheduler is stepped once per completed evaluation
\* epoch, and never at an iteration start, when it is one of StepLR,
\* ReduceLROnPlateau, ExponentialLR and MultiStepLR, with the score only for
\* ReduceLROnPlateau; every other scheduler is stepped once at the start of
\* every training iteration and never at evaluation-epoch completion.
C9_TorchSchedulersSteppedPerEvaluation ==
    pc # "idle" =>
        IF conf.scheduler \in {"StepLR", "ReduceLROnPlateau", "ExponentialLR",
                               "MultiStepLR"}
        THEN SteppedPerEvaluation(conf.scheduler = "ReduceLROnPlateau")
        ELSE SteppedPerIteration

C9_Witness ==
    /\ pc = "done"
    /\ conf.scheduler = "StepLR"
    /\ conf.epochs >= 2
    /\ scheduler.eval_steps = conf.epochs
    /\ scheduler.iter_steps = 0 /\ scheduler.metric_steps = 0

\* C10: in a distributed run a process whose rank is not 0 performs no I/O,
\* writes no file of the output directory and never evaluates the logger or
\* the output directory, which only rank 0 binds.
C10_OnlyRankZeroDoesIO ==
    (pc # "idle" /\ conf.distributed /\ local_rank > 0) =>
        /\ io = {}
        /\ \A f \in Files : writes[f] = 0
        /\ refs \cap {"logger", "outputdir"} = {}

\* C11: in a distributed run every rank goes through the setup, reaches
\* trainer.run and executes len(train_dataloader) * epochs iterations, as
\* rank 0 does; no rank fails on the way.
C11_EveryRankRunsToCompletion ==
    /\ pc # "raised"
    /\ TrainerDone => net.optimizer_steps = TotalIterations

(***************************************************************************)
(* Properties of the score report (checked under SpecScore).               *)
(***************************************************************************)
\* evaluate() has returned or raised
ReportEnded == report_pc \in {"done", "raised"}

\* the scorers evaluate() is to run for the corpus
Applicable ==
    IF report_conf.zh THEN Scorers \ {"Meteor", "Spice"} ELSE Scorers

ComputedScorers == {computed[i].scorer : i \in 1..Len(computed)}

\* the labels a scorer's lines carry
LabelsOf(scorer) ==
    CASE scorer = "Bleu" -> {"Bleu-1", "Bleu-2", "Bleu-3", "Bleu-4"}
      [] scorer = "Rouge" -> {"ROUGE"}
      [] scorer = "Cider" -> {"CIDEr"}
      [] OTHER -> {scorer}

Written == {report_lines[i] : i \in 1..Len(report_lines)}

\* C12: when evaluate() has ended, every scorer of the corpus that does not
\* itself fail has been computed and its lines are in the report, whatever
\* other scorer failed, and the report file is closed.
C12_ScorerFailureIsolated ==
    (report_pc # "idle" /\ ReportEnded) =>
        /\ \A scorer \in Applicable \ report_conf.failing :
              scorer \in ComputedScorers /\ LabelsOf(scorer) \subseteq Written
        /\ report_file = "closed"

\* the lines of a complete report, in order
ExpectedReport(logographic) ==
    <<"Bleu-1", "Bleu-2", "Bleu-3", "Bleu-4", "ROUGE", "CIDEr">>
    \o (IF logographic THEN <<>> ELSE <<"Meteor", "Spice">>)
    \o <<"SentenceBert", "Diversity">>

\* C13: the lines of the report are written in the order BLEU-1..4, ROUGE,
\* CIDEr, METEOR, SPICE, sentence-embedding similarity, lexical diversity,
\* the METEOR and SPICE lines exactly when zh is false; a report that
\* evaluate() has closed holds them all.
C13_FixedMetricOrder ==
    report_pc # "idle" =>
        /\ Len(report_lines) <= Len(ExpectedReport(report_conf.zh))
        /\ report_lines = SubSeq(ExpectedReport(report_conf.zh), 1, Len(report_lines))
        /\ report_pc = "done" => report_lines = ExpectedReport(report_conf.zh)
        /\ ("Meteor" \in ComputedScorers \/ "Spice" \in ComputedScorers) =>
              ~report_conf.zh

C13_Witness ==
    /\ report_pc = "done"
    /\ report_conf.zh
    /\ Len(report_lines) = 8
    /\ report_lines[6] = "CIDEr" /\ report_lines[7] = "SentenceBert"

(***************************************************************************)
(* Properties of the construction of the dataloaders (checked under        *)
(* SpecLoad).                                                              *)
(***************************************************************************)
LoadEnded == load_pc \in {"returned", "raised"}

\* the configuration names neither the explicit split nor a percentage
NeitherSupplied == "train" \notin load_conf.keys /\ "train_percent" \notin load_conf.keys

\* C14: at most one policy is ever entered, the explicit one exactly when
\* config["data"] has the key "train" and the percentage one otherwise; a
\* configuration with neither "train" nor "train_percent" ends in a KeyError
\* for a key of the configuration with no dataset and no dataloader built.
C14_OnePolicyAndNeitherFails ==
    load_pc # "idle" =>
        /\ Len(policy) <= 1
        /\ load_pc # "select" => Len(policy) = 1
        /\ \A i \in 1..Len(policy) :
              policy[i] = (IF "train" \in load_conf.keys THEN "explicit" ELSE "percentage")
        /\ load_pc = "returned" =>
              \/ policy = <<"explicit">> /\ {"train", "val"} \subseteq load_conf.keys
              \/ policy = <<"percentage">> /\ "train_percent" \in load_conf.keys
        /\ NeitherSupplied =>
              /\ built = {}
              /\ load_pc \in {"select", "percent_load", "percent_split", "raised"}
              /\ load_pc = "raised" =>
                    load_error \in {"KeyError: raw_feat_csv", "KeyError: train_percent"}

C14_Witness ==
    /\ load_pc = "raised"
    /\ NeitherSupplied
    /\ "raw_feat_csv" \in load_conf.keys
    /\ load_conf.records = MaxAudios
    /\ load_error = "KeyError: train_percent"
    /\ policy = <<"percentage">>
    /\ built = {}

\* an audio id of the caption metadata, of the training or of the validation
\* split, that one of the three tables of its split has no entry for
MissingFeature ==
    \/ ~(1..load_conf.records \subseteq InAllTables(load_conf.tables))
    \/ /\ "train" \in load_conf.keys
       /\ ~(load_conf.val_audios \subseteq InAllTables(load_conf.val_tables))

\* C15: when an audio id of the caption metadata has no entry in one of the
\* three feature tables, _get_dataloaders raises: it never returns the
\* dataloaders for training to start on.
C15_MissingFeatureFailsAtStartup ==
    (load_pc # "idle" /\ MissingFeature) => load_pc # "returned"


\* the float the code computes from ratio in one decay step
DecayedOnce(ratio, ss_args, total) ==
    IF ss_args.ss_mode = "exponential"
    THEN FMul(ratio, Pow001(total))
    ELSE FSub(ratio, Signed(FALSE, FDivSmall(FOneMinus(ss_args.final_ss_ratio), total)))

\* the initial ratio after 0, 1, ..., k decay steps
RECURSIVE DecaySteps(_, _, _)
DecaySteps(ss_args, total, k) ==
    IF k = 0 THEN <<ss_args.ss_ratio>>
    ELSE CHOOSE steps \in
             {Append(before, DecayedOnce(before[k], ss_args, total)) :
                 before \in {DecaySteps(ss_args, total, k - 1)}} : TRUE

\* DecayTable[ss_args, total][k + 1] is the initial ratio after k decay steps
\* of a run of total iterations
DecayTable ==
    [ss_args \in SsConfigs, total \in 1..(MaxEpochs * MaxIters) |->
        DecaySteps(ss_args, total, total)]

Decayed(k) == DecayTable[conf.ss_args, TotalIterations][k + 1]

\* the last call of the model was the forward pass of a training iteration
ForwardOfTraining == net.optimizer_steps >= 1 /\ net.last_forward.mode = "train"

\* C16: with scheduled sampling on, the forward pass of the k-th iteration of
\* the run is given the initial ratio after exactly k decay steps, the ratio
\* has been updated once for every iteration started (the update of an
\* iteration comes before its forward pass) and len(train_dataloader) *
\* epochs times when the run is over; with scheduled sampling off the ratio
\* is never changed.
C16_UpdatedOncePerIterationBeforeForward ==
    /\ conf.ss_args.ss =>
          /\ ForwardOfTraining =>
                net.last_forward.ss_ratio = Decayed(net.optimizer_steps)
          /\ ss_ratio = Decayed(ss_updates)
          /\ ss_updates \in {net.optimizer_steps, net.optimizer_steps + 1}
          /\ ss_updates = net.optimizer_steps + 1 => pc = "iteration_started"
          /\ (pc = "iteration_started" /\ pending = <<>>) =>
                ss_updates = trainer.iteration
          /\ TrainerDone => ss_updates = TotalIterations
    /\ ~conf.ss_args.ss =>
          /\ ss_updates = 0
          /\ ss_ratio = conf.ss_args.ss_ratio
          /\ ForwardOfTraining => net.last_forward.ss_ratio = conf.ss_args.ss_ratio

C16_Witness ==
    /\ pc = "next_batch"
    /\ conf.ss_args.ss /\ conf.ss_args.ss_mode = "linear"
    /\ conf.num_iter = 2
    /\ net.optimizer_steps = 3
    /\ ss_updates = 3
    /\ net.last_forward.mode = "train"
    /\ net.last_forward.ss_ratio # conf.ss_args.ss_ratio

\* x <= y
FLeq(x, y) ==
    LET al == Aligned(x, y)
    IN  IF x.neg # y.neg THEN x.neg
        ELSE IF x.neg THEN LimbsLeq(al.b, al.a)
        ELSE LimbsLeq(al.a, al.b)

\* C17: under linear decay, with an initial ratio in [0, 1] and a
\* final_ss_ratio in [0, initial ratio], the ratio given to the model in
\* every training iteration is within [final_ss_ratio, initial ratio] and is
\* not negative.
C17_LinearRatioWithinBounds ==
    (/\ conf.ss_args.ss /\ conf.ss_args.ss_mode = "linear"
     /\ FLeq(FNought, conf.ss_args.ss_ratio) /\ FLeq(conf.ss_args.ss_ratio, FOne)
     /\ FLeq(FNought, conf.ss_args.final_ss_ratio)
     /\ FLeq(conf.ss_args.final_ss_ratio, conf.ss_args.ss_ratio)
     /\ ForwardOfTraining) =>
        /\ FLeq(conf.ss_args.final_ss_ratio, net.last_forward.ss_ratio)
        /\ FLeq(net.last_forward.ss_ratio, conf.ss_args.ss_ratio)
        /\ FLeq(FNought, net.last_forward.ss_ratio)

\* C18: in a distributed run the index order of every epoch e is drawn with
\* the sampler's epoch set to e.
C18_SamplerEpochSetBeforeDraw ==
    conf.distributed =>
        \A e \in 1..Len(net.drawn) : net.drawn[e] = e

\* C19: after every batch of every evaluation epoch the model was called in
\* mode "inference" with beam search of width 3 and with one structure id
\* per example of the batch, each equal to conf["val_structure_index"]; a
\* call in a mode other than "train" reads no ground-truth structure label.
C19_InferenceFixedStructureBeam ==
    /\ (pc \in {"evaluator_next_batch", "evaluator_epoch_completed"}
          /\ evaluator.batch >= 1) =>
          /\ net.last_forward.mode = "inference"
          /\ net.last_forward.sample_method = "beam"
          /\ net.last_forward.beam_size = 3
          /\ Len(net.last_forward.structures) = Len(ValDataloader[evaluator.batch])
          /\ \A example \in 1..Len(net.last_forward.structures) :
                net.last_forward.structures[example] = conf.val_structure_index
    /\ (net.optimizer_steps >= 1 /\ net.last_forward.mode # "train") =>
          ~net.last_forward.ground_truth

C19_Witness ==
    /\ pc = "evaluator_next_batch"
    /\ evaluator.runs = 2
    /\ evaluator.batch = 1
    /\ conf.val_structure_index = 1
    /\ net.last_forward.structures = <<1, 1>>

\* C20: in a distributed run every rank starts every training iteration of
\* the run with the scheduler stepped as often as on rank 0: once per
\* completed epoch for StepLR, ReduceLROnPlateau, ExponentialLR and
\* MultiStepLR, once per iteration started for every other scheduler.
C20_SchedulerSteppedAlikeOnEveryRank ==
    (conf.distributed /\ local_rank \in Ranks) =>
        /\ pc # "raised"
        /\ (pc = "iteration_started" /\ pending = <<>>) =>
              IF conf.scheduler \in TorchSchedulers
              THEN scheduler.eval_steps = trainer.epoch - 1 /\ scheduler.iter_steps = 0
              ELSE scheduler.iter_steps = trainer.iteration /\ scheduler.eval_steps = 0
        /\ TrainerDone => trainer.iteration = TotalIterations


\* the handlers of the evaluator's EPOCH_COMPLETED still to call do not
\* include the handler: it has been called in this evaluation epoch
Called(handler) ==
    /\ pc = "evaluator_epoch_completed"
    /\ \A i \in 1..Len(eval_pending) : eval_pending[i] # handler

\* train() has registered every handler and the process is in trainer.run
\* or past it
Registered ==
    pc \in {"trainer_run", "epoch_started", "next_batch", "iteration_started",
            "epoch_completed", "evaluator_next_batch", "evaluator_epoch_completed",
            "swa_save", "return", "done"}

\* C21: on the main process the handlers of the evaluator's EPOCH_COMPLETED
\* are eval_val, then update_lr when the scheduler is one of StepLR,
\* ReduceLROnPlateau, ExponentialLR and MultiStepLR, then save_model.  After
\* eval_val the metric "score" is the score of the evaluation epoch just
\* finished; the scheduler step of that epoch reads it (ReduceLROnPlateau)
\* and is counted in the scheduler state save_model stores in last.pth, and
\* in best.pth when it writes it; save_model decides on that same score.
\* One evaluation epoch is run, and last.pth written once, per completed
\* training epoch.
C21_ScoreThenStepThenSave ==
    (IsMainProcess /\ Registered) =>
        /\ handlers.evaluator_epoch_completed =
              <<"eval_val">>
              \o (IF conf.scheduler \in TorchSchedulers THEN <<"update_lr">> ELSE <<>>)
              \o <<"save_model">>
        /\ Called("eval_val") =>
              /\ Len(score_history) = evaluator.runs
              /\ evaluator.metrics["score"] = score_history[evaluator.runs]
        /\ (Called("update_lr") /\ conf.scheduler \in TorchSchedulers) =>
              /\ Called("eval_val")
              /\ scheduler.eval_steps = evaluator.runs
              /\ conf.scheduler = "ReduceLROnPlateau" =>
                    scheduler.last_metric = <<score_history[evaluator.runs]>>
        /\ Called("save_model") =>
              /\ Called("eval_val") /\ Called("update_lr")
              /\ saved["last.pth"] = [model |-> net.optimizer_steps,
                                      lr_scheduler |-> scheduler]
              /\ conf.scheduler \in TorchSchedulers =>
                    saved["last.pth"].lr_scheduler.eval_steps = evaluator.runs
              /\ Len(best_history) = evaluator.runs
              /\ best_history[evaluator.runs] =>
                    /\ saved["best.pth"] = saved["last.pth"]
                    /\ best_value = <<score_history[evaluator.runs]>>
        /\ pc \in {"epoch_started", "swa_save", "return", "done"} =>
              /\ evaluator.runs = trainer.epoch
              /\ writes["last.pth"] = trainer.epoch
        /\ pc \in {"next_batch", "iteration_started"} =>
              /\ evaluator.runs = trainer.epoch - 1
              /\ writes["last.pth"] = trainer.epoch - 1

C21_Witness ==
    /\ IsMainProcess
    /\ Called("save_model")
    /\ conf.scheduler = "ReduceLROnPlateau"
    /\ evaluator.runs = 2
    /\ score_history[2] # score_history[1]
    /\ scheduler.last_metric = <<score_history[2]>>
    /\ saved["last.pth"].lr_scheduler.eval_steps = 2
    /\ writes["last.pth"] = 2

====
